---- MODULE Spec2Model ----
(***************************************************************************)
(* The Controller runtime of armo-breadboard: SimpleController (the        *)
(* generic controller engine) and ControlledByProps (the transactional     *)
(* binding layer of controlledByProps).                                    *)
(*                                                                         *)
(* The program is single threaded.  `stack` holds the user code that is    *)
(* running: the bodies of actions and the envWillUpdate hooks the          *)
(* controllers have called and that have not returned yet.  That code is   *)
(* arbitrary: at every step the body on top of the stack calls setState,   *)
(* set or an action of its controller, or returns.  A step of the model    *)
(* is the code of the program between two such points, with every          *)
(* listener it notifies: a call runs up to the point where it hands over   *)
(* to a body, a return runs the rest of the method that called the body.   *)
(* With an empty stack the program is called from outside.                 *)
(*                                                                         *)
(* A thrown exception is the field `thrown` of the machine state: once it  *)
(* is set every method still on the call stack is abandoned as it is (the  *)
(* code has no try/finally), which is what the operators do when they      *)
(* find it set.                                                            *)
(***************************************************************************)
EXTENDS Integers, Sequences, FiniteSets, TLC

\* ---------------------------------------------------------------- bounds
\* state values passed to setState: 1..MaxVal
MaxVal == 2
\* input values passed to set: 0..MaxEnv
MaxEnv == 1
\* calls the bodies run by one outside call make in total
MaxOps == 4
\* cap on the binding layer's unlock queue
MaxQueue == 3
\* cap on a controller's transactionLevel (it only grows without bound when
\* listeners keep throwing)
MaxLevel == 2
\* widths of the layout: 0..MaxWidth
MaxWidth == 3

Vals == 1..MaxVal
Envs == 0..MaxEnv

\* ------------------------------------------------------------- identities
\* SimpleController instances
Ctrls == {"A"}
\* the names of the actions a controller class declares (static actions)
ActionKeys == {"k1", "k2"}
\* controllers that implement the Controller interface on their own and call
\* the callbacks they were given when they choose to
Fakes == {"F", "G"}
\* plain subscribers of a controller
Observers == {"O1", "O2"}
\* subscribers that listen once: each of their callbacks calls the
\* unsubscribe function that subscribe returned
OnceObservers == {"Q"}
\* controllerPropNames: the prop keys of the host that hold controllers
PropNames == <<"a", "f", "g">>
PropKeys == {PropNames[i] : i \in DOMAIN PropNames}
\* the listener the binding layer subscribes with for prop key `key`
\* (handleChange.bind(this, key), handleTransactionStart, handleTransactionEnd)
HostListener(key) == <<"H", key>>

Null == "null"
\* the value of a parameter that was not passed
Undefined == "undefined"
\* outputs are tuples: <<env, state>> of a SimpleController, <<value>> of an
\* interface controller, <<>> for none
NoOut == <<>>

VARIABLES
    ctl,        \* ctl[c]: the fields of SimpleController instance c
    host,       \* the fields of the ControlledByProps instance
    fake,       \* fake[f]: the interface controller f
    stack,      \* the bodies and hooks that are running, innermost last
    log,        \* notifications observers received since the outside call began
    hlog,       \* calls of the binding layer's handlers since the outside call began
    thrown,     \* the exception the outside call ended with, or "none"
    released,   \* the release tokens invoked since the outside call began
    call,       \* the outside call and what the last step did in it
    mon,        \* what was observed of the binding layer over the calls
    world,      \* the registry globalLinkedControllers, the diagnostics it
                \* gave rise to and the bindings of a second host
    scope,      \* the fields of the InstantiateDefaultControllers instance
                \* and the controllers it has created
    setup,      \* the last call of a factory or decorator function, with
                \* its argument and what it did
    layout,     \* the props and the state of the ResponsiveDualModeController
    board       \* the props and the state of the Breadboard component, and
                \* which method ran last and whether it called transform
                \* and prepare

vars == <<ctl, host, fake, stack, log, hlog, thrown, released, call, mon, world,
          scope, setup, layout, board>>

\* the variables of the components other than the controller runtime
beside == <<scope, setup, layout, board>>

\* ---------------------------------------------------------- machine state
\* the program's fields and the logs, as one value the methods transform
Now ==
    [ctl |-> ctl, host |-> host, fake |-> fake,
     log |-> log, hlog |-> hlog, thrown |-> thrown, released |-> released,
     nSet |-> call.nSet, world |-> world]

\* the machine state an outside call starts from: its logs are empty
Fresh ==
    [Now EXCEPT !.log = <<>>, !.hlog = <<>>, !.thrown = "none",
                !.released = <<>>, !.nSet = 0]

Raised(M) == M.thrown # "none"

\* ------------------------------------------------- ControlledByProps
\* constructor
HostInit(props) ==
    [props |-> props,
     state |-> [k \in PropKeys |-> NoOut],
     unsubscribers |-> [k \in PropKeys |-> Null],
     transactionLevel |-> 0,
     flushLevel |-> 0,
     unlockQueue |-> <<>>,
     changesExist |-> FALSE,
     pending |-> 0,
     unrendered |-> FALSE,
     mounted |-> FALSE]

HostEvent(M, ev, arg, ok) ==
    [ev |-> ev, arg |-> arg, ok |-> ok,
     tl |-> M.host.transactionLevel, fl |-> M.host.flushLevel,
     ce |-> M.host.changesExist, pending |-> M.host.pending]

\* handleChange without the flushLevel guard
handleChange_NoFlushGuard(M, key, newState) ==
    IF Raised(M) THEN M
    ELSE IF M.host.transactionLevel = 0
    THEN [M EXCEPT !.thrown = "noTransaction",
                   !.hlog = Append(@, HostEvent(M, "change", key, FALSE))]
    ELSE [M EXCEPT !.host.changesExist = TRUE,
                   !.host.state[key] = newState,
                   !.host.unrendered = TRUE,
                   !.hlog = Append(@, HostEvent(M, "change", key, TRUE))]

\* handleChange that marks a change as recorded before it checks the levels
handleChange_MarksFirst(M, key, newState) ==
    IF Raised(M) THEN M
    ELSE IF M.host.transactionLevel = 0
    THEN [M EXCEPT !.thrown = "noTransaction",
                   !.host.changesExist = TRUE,
                   !.hlog = Append(@, HostEvent(M, "change", key, FALSE))]
    ELSE IF M.host.flushLevel # 0
    THEN [M EXCEPT !.thrown = "flushing",
                   !.host.changesExist = TRUE,
                   !.hlog = Append(@, HostEvent(M, "change", key, FALSE))]
    ELSE [M EXCEPT !.host.changesExist = TRUE,
                   !.host.state[key] = newState,
                   !.host.unrendered = TRUE,
                   !.hlog = Append(@, HostEvent(M, "change", key, TRUE))]

\* handleChange(key, newState); the logged levels are those it was called at
handleChange(M, key, newState) ==
    IF Raised(M) THEN M
    ELSE IF M.host.transactionLevel = 0
    THEN [M EXCEPT !.thrown = "noTransaction",
                   !.hlog = Append(@, HostEvent(M, "change", key, FALSE))]
    ELSE IF M.host.flushLevel # 0
    THEN [M EXCEPT !.thrown = "flushing",
                   !.hlog = Append(@, HostEvent(M, "change", key, FALSE))]
    ELSE [M EXCEPT !.host.changesExist = TRUE,
                   !.host.state[key] = newState,
                   !.host.unrendered = TRUE,
                   !.hlog = Append(@, HostEvent(M, "change", key, TRUE))]

\* handleTransactionStart that does not count the transaction into flushLevel
handleTransactionStart_NoFlushCount(M) ==
    IF Raised(M) THEN M
    ELSE LET M1 == [M EXCEPT !.host.transactionLevel = @ + 1]
         IN [M1 EXCEPT !.hlog = Append(@, HostEvent(M1, "start", M.host.flushLevel > 0, TRUE))]

\* handleTransactionStart(); the logged levels are those it leaves
handleTransactionStart(M) ==
    IF Raised(M) THEN M
    ELSE LET M1 == [M EXCEPT !.host.transactionLevel = @ + 1]
             M2 == IF M1.host.flushLevel > 0
                   THEN [M1 EXCEPT !.host.flushLevel = @ + 1]
                   ELSE M1
         IN [M2 EXCEPT !.hlog = Append(@, HostEvent(M2, "start", M.host.flushLevel > 0, TRUE))]

\* handleTransactionEnd with another condition to flush on: a recorded change
\* alone (perEnd), or transactionLevel 0 alone
handleTransactionEndOn(M, unlock, perEnd) ==
    IF Raised(M) THEN M
    ELSE LET M1 == IF M.host.flushLevel > 0
                   THEN [M EXCEPT !.host.flushLevel = @ - 1]
                   ELSE M
             M2 == [M1 EXCEPT !.host.unlockQueue = Append(@, unlock),
                              !.host.transactionLevel = @ - 1]
             M3 == [M2 EXCEPT !.hlog = Append(@, HostEvent(M2, "end", unlock, TRUE))]
         IN IF (IF perEnd THEN M3.host.changesExist ELSE M3.host.transactionLevel = 0)
            THEN LET M4 == [M3 EXCEPT !.host.flushLevel = @ + 1,
                                      !.host.changesExist = FALSE,
                                      !.host.pending = @ + 1]
                 IN [M4 EXCEPT !.hlog = Append(@, HostEvent(M4, "flush", M3.host.changesExist, TRUE))]
            ELSE M3

\* handleTransactionEnd that flushes at the end of every transaction with a
\* change, whatever transactions are still open
handleTransactionEnd_FlushPerEnd(M, unlock) ==
    handleTransactionEndOn(M, unlock, TRUE)

\* handleTransactionEnd that flushes whenever transactionLevel reaches 0
handleTransactionEnd_NoChangeCheck(M, unlock) ==
    handleTransactionEndOn(M, unlock, FALSE)

\* handleTransactionEnd that leaves changesExist set when it schedules the
\* flush
handleTransactionEnd_KeepsChanges(M, unlock) ==
    IF Raised(M) THEN M
    ELSE LET M1 == IF M.host.flushLevel > 0
                   THEN [M EXCEPT !.host.flushLevel = @ - 1]
                   ELSE M
             M2 == [M1 EXCEPT !.host.unlockQueue = Append(@, unlock),
                              !.host.transactionLevel = @ - 1]
             M3 == [M2 EXCEPT !.hlog = Append(@, HostEvent(M2, "end", unlock, TRUE))]
         IN IF M3.host.transactionLevel = 0 /\ M3.host.changesExist
            THEN LET M4 == [M3 EXCEPT !.host.flushLevel = @ + 1,
                                      !.host.pending = @ + 1]
                 IN [M4 EXCEPT !.hlog = Append(@, HostEvent(M4, "flush", M3.host.changesExist, TRUE))]
            ELSE M3

\* handleTransactionEnd(unlock); this.setState({ $flush: {} }, callback)
\* schedules one host update, whose callback is FlushCallback
handleTransactionEnd(M, unlock) ==
    IF Raised(M) THEN M
    ELSE LET M1 == IF M.host.flushLevel > 0
                   THEN [M EXCEPT !.host.flushLevel = @ - 1]
                   ELSE M
             M2 == [M1 EXCEPT !.host.unlockQueue = Append(@, unlock),
                              !.host.transactionLevel = @ - 1]
             M3 == [M2 EXCEPT !.hlog = Append(@, HostEvent(M2, "end", unlock, TRUE))]
         IN IF M3.host.transactionLevel = 0 /\ M3.host.changesExist
            THEN LET M4 == [M3 EXCEPT !.host.flushLevel = @ + 1,
                                      !.host.changesExist = FALSE,
                                      !.host.pending = @ + 1]
                 IN [M4 EXCEPT !.hlog = Append(@, HostEvent(M4, "flush", M3.host.changesExist, TRUE))]
            ELSE M3

\* this.unlockQueue.forEach(unlock => unlock()): calling a token that is not
\* a function throws a TypeError out of the loop
RECURSIVE forEachUnlock(_, _)
forEachUnlock(M, i) ==
    IF Raised(M) \/ i > Len(M.host.unlockQueue) THEN M
    ELSE IF M.host.unlockQueue[i] = Undefined
    THEN [M EXCEPT !.thrown = "typeError"]
    ELSE forEachUnlock([M EXCEPT !.released = Append(@, M.host.unlockQueue[i])], i + 1)

\* the callback of this.setState({ $flush: {} }, callback)
FlushCallback(M) ==
    LET M1 == [M EXCEPT !.host.flushLevel = @ - 1, !.host.pending = @ - 1]
        M2 == forEachUnlock(M1, 1)
        M3 == IF Raised(M2) THEN M2 ELSE [M2 EXCEPT !.host.unlockQueue = <<>>]
    IN [M3 EXCEPT !.hlog = Append(@, HostEvent(M3, "commit", M.host.unlockQueue, ~Raised(M3)))]

\* shouldComponentUpdate()
shouldComponentUpdate(M) == M.host.transactionLevel = 0

\* React processes the updates scheduled by setState: it calls render() if
\* shouldComponentUpdate() returns true, and this.state is then what the
\* wrapped component was given
render(M) ==
    IF Raised(M) \/ ~shouldComponentUpdate(M) THEN M
    ELSE [M EXCEPT !.host.unrendered = FALSE]

\* ------------------------------------------------- SimpleController
\* constructor(env); initialState is the first state value. `differs` is what
\* the doesEnvDiffer and doesStateDiffer of the instance's class return: TRUE
\* in SimpleController, FALSE in a subclass whose hooks report no difference
CtlInit(env) ==
    [env |-> env,
     differs |-> TRUE,
     isDestroyed |-> FALSE,
     listeners |-> <<>>,
     state |-> 1,
     runningActions |-> {},
     runningEnv |-> FALSE,
     transactionLevel |-> 0,
     notificationIsQueued |-> FALSE]

\* overridable hooks: as SimpleController defines them, or as the subclass
\* overrides them
doesEnvDiffer(M, c, env) == M.ctl[c].differs

doesStateDiffer(M, c, state) == M.ctl[c].differs

\* output(): the env and the state (the actions are the same frozen object
\* in every output)
output(M, c) == <<M.ctl[c].env, M.ctl[c].state>>

\* $isRunning()
isRunning(M, c) ==
    M.ctl[c].runningEnv \/ M.ctl[c].runningActions # {}

\* what is noted in the log of a callback of l, or of a call of subscribe or
\* of the unsubscribe function for l: the controller's transactionLevel at
\* that moment and whether a body is running
noted(M, c, l, ev, out) ==
    [M EXCEPT !.log = Append(@, [c |-> c, l |-> l, ev |-> ev, out |-> out,
                                 tl |-> M.ctl[c].transactionLevel,
                                 running |-> isRunning(M, c)])]

\* the unsubscribe function with splice(index, 1) not guarded by index !== -1:
\* splice(-1, 1) removes the last listener
controllerUnsubscribe_NoIndexCheck(M, c, l) ==
    LET ls == M.ctl[c].listeners
    IN IF \E i \in DOMAIN ls : ls[i] = l
       THEN [M EXCEPT !.ctl[c].listeners = SelectSeq(ls, LAMBDA x : x # l)]
       ELSE [M EXCEPT !.ctl[c].listeners = SubSeq(ls, 1, Len(ls) - 1)]

\* the function $$subscribe returns, for listener l
controllerUnsubscribe(M, c, l) ==
    LET ls == M.ctl[c].listeners
    IN IF \E i \in DOMAIN ls : ls[i] = l
       THEN [M EXCEPT !.ctl[c].listeners = SelectSeq(ls, LAMBDA x : x # l)]
       ELSE M

\* $$destroy()
controllerDestroy(M, c) ==
    [M EXCEPT !.ctl[c].listeners = <<>>, !.ctl[c].isDestroyed = TRUE]

\* one callback of listener l of controller c: the binding layer's handler,
\* or an observer, which notes what it was told; one that listens once
\* unsubscribes in the callback
callListener(M, c, l, ev, out) ==
    IF l \in OnceObservers
    THEN noted(controllerUnsubscribe(noted(M, c, l, ev, out), c, l), c, l, "unsubscribe", NoOut)
    ELSE IF l \notin Observers
    THEN CASE ev = "change" -> handleChange(M, l[2], out)
           [] ev = "transactionStart" -> handleTransactionStart(M)
           [] ev = "transactionEnd" -> handleTransactionEnd(M, out)
    ELSE noted(M, c, l, ev, out)

\* for (let { <ev> } of this.$listeners) <ev>(out): the array is read anew at
\* every round of the loop
RECURSIVE forEachListener(_, _, _, _, _)
forEachListener(M, c, ev, out, i) ==
    IF Raised(M) \/ i > Len(M.ctl[c].listeners) THEN M
    ELSE forEachListener(callListener(M, c, M.ctl[c].listeners[i], ev, out),
                         c, ev, out, i + 1)

\* $doIncreaseTransactionLevel that notifies at every level
doIncreaseTransactionLevel_Always(M, c) ==
    IF Raised(M) THEN M
    ELSE forEachListener([M EXCEPT !.ctl[c].transactionLevel = @ + 1],
                         c, "transactionStart", NoOut, 1)

\* $doIncreaseTransactionLevel()
doIncreaseTransactionLevel(M, c) ==
    IF Raised(M) THEN M
    ELSE LET M1 == [M EXCEPT !.ctl[c].transactionLevel = @ + 1]
         IN IF M1.ctl[c].transactionLevel = 1
            THEN forEachListener(M1, c, "transactionStart", NoOut, 1)
            ELSE M1

\* $doDecreaseTransactionLevel(): transactionEnd() is called without argument
doDecreaseTransactionLevel(M, c) ==
    IF Raised(M) THEN M
    ELSE LET M1 == [M EXCEPT !.ctl[c].transactionLevel = @ - 1]
         IN IF M1.ctl[c].transactionLevel = 0
            THEN forEachListener(M1, c, "transactionEnd", Undefined, 1)
            ELSE M1

\* $doNotify that does not wait for the running bodies
doNotify_Eager(M, c) ==
    IF Raised(M) THEN M
    ELSE LET M1 == forEachListener(M, c, "change", output(M, c), 1)
         IN IF Raised(M1) THEN M1
            ELSE [M1 EXCEPT !.ctl[c].notificationIsQueued = FALSE]

\* $doNotify(): the flag is cleared after the loop, so not when it throws
doNotify(M, c) ==
    IF Raised(M) THEN M
    ELSE IF ~isRunning(M, c)
    THEN LET M1 == forEachListener(M, c, "change", output(M, c), 1)
         IN IF Raised(M1) THEN M1
            ELSE [M1 EXCEPT !.ctl[c].notificationIsQueued = FALSE]
    ELSE [M EXCEPT !.ctl[c].notificationIsQueued = TRUE]

\* $doStateUpdate(state): the machine state and whether the state was replaced
doStateUpdate(M, c, state) ==
    IF doesStateDiffer(M, c, state)
    THEN [m |-> [M EXCEPT !.ctl[c].state = state,
                          !.nSet = IF @ < MaxOps THEN @ + 1 ELSE @],
          ret |-> TRUE]
    ELSE [m |-> M, ret |-> FALSE]

\* setState that notifies without opening a transaction
setState_NoBracket(M, c, state) ==
    IF M.ctl[c].isDestroyed THEN M
    ELSE LET u == doStateUpdate(M, c, state)
         IN IF u.ret THEN doNotify(u.m, c) ELSE u.m

\* setState(state)
setState(M, c, state) ==
    IF M.ctl[c].isDestroyed THEN M
    ELSE LET u == doStateUpdate(M, c, state)
         IN IF u.ret
            THEN doDecreaseTransactionLevel(
                     doNotify(doIncreaseTransactionLevel(u.m, c), c), c)
            ELSE u.m

\* $doAction without the guard on the running action
doActionRefuses_DestroyedOnly(M, c, key) ==
    M.ctl[c].isDestroyed

\* $doAction(key, fn, ...args): the two early returns
doActionRefuses(M, c, key) ==
    M.ctl[c].isDestroyed \/ key \in M.ctl[c].runningActions

\* $doAction(key, fn, ...args) up to the call of fn
doActionEnter(M, c, key) ==
    LET M1 == doIncreaseTransactionLevel(M, c)
    IN IF Raised(M1) THEN M1
       ELSE [M1 EXCEPT !.ctl[c].runningActions = @ \cup {key}]

\* $doAction that notifies after every body, queued notification or not
doActionLeave_AlwaysNotify(M, c, key) ==
    LET M1 == [M EXCEPT !.ctl[c].runningActions = @ \ {key}]
    IN doDecreaseTransactionLevel(doNotify(M1, c), c)

\* $doAction(key, fn, ...args) after fn has returned
doActionLeave(M, c, key) ==
    LET M1 == [M EXCEPT !.ctl[c].runningActions = @ \ {key}]
        M2 == IF M1.ctl[c].notificationIsQueued THEN doNotify(M1, c) ELSE M1
    IN doDecreaseTransactionLevel(M2, c)

\* $$set(env): the early return
setRefuses(M, c) == M.ctl[c].isDestroyed

\* $doEnvUpdate(env): whether it calls envWillUpdate (the hook of a
\* subclass; one that does nothing is a class without it)
callsEnvWillUpdate(M, c, env) ==
    doesEnvDiffer(M, c, env) /\ ~M.ctl[c].runningEnv

\* $$set(env) and $doEnvUpdate(env) up to the call of envWillUpdate
setEnter(M, c, env) ==
    LET M1 == doIncreaseTransactionLevel(M, c)
    IN IF Raised(M1) THEN M1
       ELSE [M1 EXCEPT !.ctl[c].runningEnv = TRUE]

\* $doEnvUpdate(env) and $$set(env) after envWillUpdate has returned
setLeave(M, c, env) ==
    LET M1 == [M EXCEPT !.ctl[c].runningEnv = FALSE, !.ctl[c].env = env]
    IN doDecreaseTransactionLevel(doNotify(M1, c), c)

\* $$set(env) that notifies whatever doesEnvDiffer reports
setDirect_AlwaysNotify(M, c, env) ==
    LET M1 == doIncreaseTransactionLevel(M, c)
        M2 == IF Raised(M1) THEN M1
              ELSE doNotify([M1 EXCEPT !.ctl[c].env = env], c)
    IN doDecreaseTransactionLevel(M2, c)

\* $$set(env) when $doEnvUpdate(env) does not call envWillUpdate
setDirect(M, c, env) ==
    LET M1 == doIncreaseTransactionLevel(M, c)
        M2 == IF Raised(M1) \/ ~doesEnvDiffer(M1, c, env) THEN M1
              ELSE doNotify([M1 EXCEPT !.ctl[c].env = env], c)
    IN doDecreaseTransactionLevel(M2, c)

\* $$get()
get(M, c) == output(M, c)

\* $$subscribe(change, transactionStart, transactionEnd)
controllerSubscribe(M, c, l) ==
    [M EXCEPT !.ctl[c].listeners = Append(@, l)]

\* ------------------------------------------- interface controllers
\* a controller that is no SimpleController: it keeps the callbacks it was
\* subscribed with (`key`: the prop key they are bound to) and whether it has
\* told its listener of a transaction that it has not ended yet;
\* duringFlush notes that this transaction began while the host was flushing
FakeInit == [key |-> Null, open |-> FALSE, duringFlush |-> FALSE]

\* ------------------------------------------ ControlledByProps, lifecycle
\* globalLinkedControllers is empty when the module is loaded; `warned`
\* counts the console.warn calls of subscribe, `other` is the set of
\* controllers a second host is subscribed to
WorldInit ==
    [linked |-> [x \in Ctrls \cup Fakes |-> Null], warned |-> 0, other |-> {}]

\* subscribe(key, controller, props): the registry is read, the diagnostic
\* given when the controller has an entry, and the entry written
linkController(M, controller, key) ==
    [M EXCEPT !.world.warned = IF M.world.linked[controller] # Null /\ @ < MaxOps
                               THEN @ + 1 ELSE @,
              !.world.linked[controller] = key]

\* subscribe(key, controller, props) after controller.set(props), up to
\* the subscription: this.unsubscribers[key] is the function that
\* unsubscribes from `controller`, named by the controller here
subscribeTo(M, key, controller) ==
    LET M0 == linkController(M, controller, key)
        M1 == [M0 EXCEPT !.host.unsubscribers[key] = controller]
    IN IF controller \in Fakes
       THEN [M1 EXCEPT !.fake[controller].key = key]
       ELSE controllerSubscribe(M1, controller, HostListener(key))

\* controller.get() as subscribe returns it
getOf(M, controller) ==
    IF controller \in Fakes THEN <<0>> ELSE get(M, controller)

\* subscribe(key, controller, props) after controller.set(props): the
\* controller is subscribed to and its output read
subscribeRest(M, key) ==
    LET controller == M.host.props[key]
        M2 == subscribeTo(M, key, controller)
    IN [M2 EXCEPT !.host.state[key] = getOf(M2, controller)]

\* the function controller.subscribe returned for `key` is called
hostUnsubscriber(M, key, controller) ==
    IF controller \in Fakes
    THEN [M EXCEPT !.fake[controller].key = IF @ = key THEN Null ELSE @]
    ELSE controllerUnsubscribe(M, controller, HostListener(key))

\* unsubscribe that forgets the registry entry and the stored function
\* without calling the function
unsubscribe_NotCalled(M, key, controller) ==
    [M EXCEPT !.world.linked[controller] = Null,
              !.host.unsubscribers[key] = Null]

\* unsubscribe(key, controller)
unsubscribe(M, key, controller) ==
    LET M0 == [M EXCEPT !.world.linked[controller] = Null]
        from == M.host.unsubscribers[key]
    IN IF from = Null THEN M0
       ELSE [hostUnsubscriber(M0, key, from)
                EXCEPT !.host.unsubscribers[key] = Null]

\* controller.set(props) as a props update calls it: an envWillUpdate hook,
\* when set calls it, returns without calling the controller
setThrough(M, controller, env) ==
    IF controller \in Fakes \/ setRefuses(M, controller) THEN M
    ELSE IF callsEnvWillUpdate(M, controller, env)
    THEN setLeave(setEnter(M, controller, env), controller, env)
    ELSE setDirect(M, controller, env)

\* componentWillReceiveProps(nextProps) from prop key number i on;
\* newOutputs is a function of the keys that have a new output (NoOut for
\* null); React then makes nextProps this.props
RECURSIVE receiveFrom(_, _, _, _)
receiveFrom(M, nextProps, newOutputs, i) ==
    IF Raised(M) THEN M
    ELSE IF i > Len(PropNames)
    THEN [M EXCEPT !.host.state = [k \in PropKeys |->
                                     IF k \in DOMAIN newOutputs
                                     THEN newOutputs[k] ELSE @[k]],
                   !.host.props = nextProps]
    ELSE LET key == PropNames[i]
             prevController == M.host.props[key]
             nextController == nextProps[key]
             leaves == prevController # Null /\ nextController # prevController
             M1 == IF leaves THEN unsubscribe(M, key, prevController) ELSE M
             M2 == IF nextController = Null THEN M1
                   ELSE IF nextController # prevController
                   THEN subscribeTo(setThrough(M1, nextController, nextProps.input),
                                    key, nextController)
                   ELSE setThrough(M1, nextController, nextProps.input)
             outs == IF nextController # Null /\ nextController # prevController
                     THEN (key :> getOf(M2, nextController)) @@ newOutputs
                     ELSE IF leaves THEN (key :> NoOut) @@ newOutputs
                     ELSE newOutputs
         IN receiveFrom(M2, nextProps, outs, i + 1)

\* componentWillUnmount() from prop key number i on
RECURSIVE unmountFrom(_, _)
unmountFrom(M, i) ==
    IF i > Len(PropNames) THEN M
    ELSE LET controller == M.host.props[PropNames[i]]
         IN unmountFrom(IF controller = Null THEN M
                        ELSE unsubscribe(M, PropNames[i], controller), i + 1)

\* componentWillMount() from prop key number i on, up to the call of an
\* envWillUpdate hook by controller.set(props) (then `wait` is the hook that
\* runs, which returns into the loop) or to the end
RECURSIVE mountFrom(_, _)
mountFrom(M, i) ==
    IF Raised(M) \/ i > Len(PropNames)
    THEN [m |-> M, wait |-> <<>>]
    ELSE LET key == PropNames[i]
             controller == M.host.props[key]
             input == M.host.props.input
         IN IF controller = Null THEN mountFrom(M, i + 1)
            ELSE IF controller \in Fakes \/ setRefuses(M, controller)
            THEN mountFrom(subscribeRest(M, key), i + 1)
            ELSE IF callsEnvWillUpdate(M, controller, input)
            THEN [m |-> setEnter(M, controller, input),
                  wait |-> <<[kind |-> "envWillUpdate", c |-> controller,
                              arg |-> input, mount |-> i]>>]
            ELSE mountFrom(subscribeRest(setDirect(M, controller, input), key), i + 1)

\* ------------------------------------- instantiateDefaultControllers
\* Object.keys(controllerClasses), in order: classes that extend Controller
ScopeKeyNames == <<"a", "f">>
ScopeKeys == {ScopeKeyNames[i] : i \in DOMAIN ScopeKeyNames}

\* what the props of the scope hold under a declared key: nothing, null or
\* a controller supplied from outside
External == "external"
ScopeValues == {Undefined, Null, External}

\* no InstantiateDefaultControllers instance
ScopeNone == [props |-> <<>>, defaults |-> <<>>, made |-> <<>>, mounted |-> FALSE]

\* instantiateController(ControllerClass, props) for `key`, of a class that
\* implements the interface instantiateController binds: the new controller
\* is the last of `made`, which counts the calls of its destroy
instantiate(S, key) ==
    [S EXCEPT !.made = Append(@, [key |-> key, destroyed |-> 0])]

\* createMissingControllers(props) from key number i on; `created` maps the
\* keys it has created a controller for to that controller
RECURSIVE createMissingControllers(_, _, _, _)
createMissingControllers(S, props, created, i) ==
    IF i > Len(ScopeKeyNames) THEN [s |-> S, created |-> created]
    ELSE LET key == ScopeKeyNames[i]
         IN IF props[key] = Undefined
            THEN LET S1 == instantiate(S, key)
                 IN createMissingControllers(S1, props,
                        (key :> Len(S1.made)) @@ created, i + 1)
            ELSE createMissingControllers(S, props, created, i + 1)

\* the constructor of InstantiateDefaultControllers
ScopeConstruct(props) ==
    LET r == createMissingControllers(ScopeNone, props, <<>>, 1)
    IN [r.s EXCEPT !.props = props, !.defaults = r.created, !.mounted = TRUE]

\* destroyDefault that leaves the destroyed controller in this.state.defaults
destroyDefault_KeepsEntry(S, key) ==
    [S EXCEPT !.made[S.defaults[key]].destroyed = @ + 1]

\* this.state.defaults[key].destroy(); delete this.state.defaults[key]
destroyDefault(S, key) ==
    [S EXCEPT !.made[S.defaults[key]].destroyed = @ + 1,
              !.defaults = [k \in DOMAIN @ \ {key} |-> @[k]]]

\* the loop of componentWillReceiveProps that destroys nothing
destroySupplied_Keeps(S, nextProps, i) == S

\* the loop over Object.keys(this.state.defaults) of
\* componentWillReceiveProps, from key number i on
RECURSIVE destroySupplied(_, _, _)
destroySupplied(S, nextProps, i) ==
    IF i > Len(ScopeKeyNames) THEN S
    ELSE LET key == ScopeKeyNames[i]
         IN destroySupplied(IF key \in DOMAIN S.defaults /\ nextProps[key] # Undefined
                            THEN destroyDefault(S, key) ELSE S,
                            nextProps, i + 1)

\* { ...nextProps, ...this.state.defaults }
mergedProps(S, nextProps) ==
    [k \in ScopeKeys |-> IF k \in DOMAIN S.defaults THEN External ELSE nextProps[k]]

\* InstantiateDefaultControllers.componentWillReceiveProps(nextProps); React
\* then makes nextProps this.props
scopeReceiveProps(S, nextProps) ==
    LET S1 == destroySupplied(S, nextProps, 1)
        r == createMissingControllers(S1, mergedProps(S1, nextProps), <<>>, 1)
    IN [r.s EXCEPT !.defaults = r.created @@ S1.defaults, !.props = nextProps]

\* InstantiateDefaultControllers.componentWillUnmount() from key number i on
RECURSIVE scopeUnmount(_, _)
scopeUnmount(S, i) ==
    IF i > Len(ScopeKeyNames) THEN [S EXCEPT !.mounted = FALSE]
    ELSE LET key == ScopeKeyNames[i]
         IN scopeUnmount(IF key \in DOMAIN S.defaults
                         THEN destroyDefault(S, key) ELSE S, i + 1)

\* ------------------------------------------- factories and decorators
\* the methods instantiateController calls or binds
Methods == {"$initialize", "$set", "$get", "$subscribe", "$destroy"}

\* a function passed as a controller class: whether its prototype is an
\* instance of Controller and which of those methods its instances have
Types == [extends : BOOLEAN, methods : SUBSET Methods]

\* a class that extends Controller and implements its interface
ConformingClass == [extends |-> TRUE, methods |-> Methods]

\* SimpleController and its subclasses: they extend Controller, their
\* methods are named $$set, $$get, $$subscribe and $$destroy and they have
\* no $initialize
SimpleControllerClass == [extends |-> TRUE, methods |-> {}]

\* a function that is no controller class
PlainFunction == [extends |-> FALSE, methods |-> {}]

\* the module's private brand object, and values that are not it
IS_CONTROLLER == "IS_CONTROLLER"

\* values as isController sees them: whether the value is truthy, its own
\* enumerable keys, what its $isController property is and whether it is
\* frozen
UndefinedValue ==
    [truthy |-> FALSE, keys |-> {}, brand |-> Undefined, frozen |-> FALSE]
PlainObject ==
    [truthy |-> TRUE, keys |-> {}, brand |-> Undefined, frozen |-> FALSE]
MarkedObject ==
    [truthy |-> TRUE, keys |-> {"$isController"}, brand |-> "true", frozen |-> FALSE]
InstanceObject ==
    [truthy |-> TRUE, keys |-> {"$env", "$state"}, brand |-> Undefined, frozen |-> FALSE]

\* what a call has done: the error it threw, the console.warn diagnostics,
\* the instances constructed and initialized, the value returned
SetupNone ==
    [fn |-> "none", arg |-> <<>>, thrown |-> "none", warned |-> 0,
     constructed |-> 0, initialized |-> 0, returned |-> UndefinedValue]

\* instantiateController that binds whatever the instance has
instantiateController_Unchecked(R, type) ==
    [R EXCEPT !.constructed = @ + 1, !.initialized = @ + 1,
              !.returned = [truthy |-> TRUE,
                            keys |-> {"set", "get", "subscribe", "destroy"},
                            brand |-> IS_CONTROLLER, frozen |-> TRUE]]

\* instantiateController(type, value): calling or binding a method the
\* instance does not have throws a TypeError
instantiateController(R, type) ==
    IF ~type.extends THEN [R EXCEPT !.thrown = "Error"]
    ELSE LET R1 == [R EXCEPT !.constructed = @ + 1]
         IN IF "$initialize" \notin type.methods
            THEN [R1 EXCEPT !.thrown = "TypeError"]
            ELSE LET R2 == [R1 EXCEPT !.initialized = @ + 1]
                 IN IF ~({"$set", "$get", "$subscribe", "$destroy"} \subseteq type.methods)
                    THEN [R2 EXCEPT !.thrown = "TypeError"]
                    ELSE [R2 EXCEPT !.returned =
                             [truthy |-> TRUE,
                              keys |-> {"set", "get", "subscribe", "destroy"},
                              brand |-> IS_CONTROLLER, frozen |-> TRUE]]

\* a handle instantiateController has returned
Handle == instantiateController(SetupNone, ConformingClass).returned

\* isController(obj), as a boolean
isController(obj) == obj.truthy /\ obj.brand = IS_CONTROLLER

\* console.warning(message): console has no function of that name (its
\* diagnostic functions are log, info, warn, error), the call throws
consoleWarning(R) == [R EXCEPT !.thrown = "TypeError"]

\* the decorator a setup function returns
Decorator ==
    [truthy |-> TRUE, keys |-> {}, brand |-> Undefined, frozen |-> FALSE]

\* the loop that checks the value of every key, in the order of the keys
RECURSIVE checkEach(_, _, _, _)
checkEach(R, keys, ok, i) ==
    IF Raised(R) \/ i > Len(keys) THEN R
    ELSE checkEach(IF ok[keys[i]] THEN R ELSE [R EXCEPT !.thrown = "Error"],
                   keys, ok, i + 1)

\* the declared keys of an argument: `controller` for a single class or
\* controller, Object.keys of a mapping
keysOf(arg) ==
    IF arg.single THEN <<"controller">>
    ELSE SelectSeq(ScopeKeyNames, LAMBDA k : k \in DOMAIN arg.map)

valueOf(arg, key) == IF arg.single THEN arg.value ELSE arg.map[key]

\* instantiateDefaultControllers(controllerClasses) up to the decorator it
\* returns
instantiateDefaultControllers(R, arg) ==
    LET keys == keysOf(arg)
        R1 == IF Len(keys) = 0 THEN consoleWarning(R) ELSE R
        R2 == checkEach(R1, keys,
                        [k \in {keys[i] : i \in DOMAIN keys} |-> valueOf(arg, k).extends], 1)
    IN IF Raised(R2) THEN R2 ELSE [R2 EXCEPT !.returned = Decorator]

\* injectControllers(controllers) up to the decorator it returns
injectControllers(R, arg) ==
    LET keys == keysOf(arg)
        R1 == IF Len(keys) = 0 THEN consoleWarning(R) ELSE R
        R2 == checkEach(R1, keys,
                        [k \in {keys[i] : i \in DOMAIN keys} |-> isController(valueOf(arg, k))], 1)
    IN IF Raised(R2) THEN R2 ELSE [R2 EXCEPT !.returned = Decorator]

\* the reserved prop name
Flush == "$flush"

\* controlledByProps that accepts every name
controlledByProps_NoReserved(R, names) ==
    [R EXCEPT !.returned = Decorator]

\* controlledByProps(controllerPropNames) up to the decorator it returns;
\* `names` is the array, made of the single name when one name is passed
controlledByProps(R, names) ==
    IF \E i \in DOMAIN names : names[i] = Flush
    THEN [R EXCEPT !.thrown = "Error"]
    ELSE [R EXCEPT !.returned = Decorator]

\* ---------------------------------------- ResponsiveDualModeController
Panes == {"source", "transformed", "view", "console"}

\* a width is <<w>>, or <<>> when it is undefined
Widths == {<<>>} \cup {<<w>> : w \in 0..MaxWidth}

\* static defaultProps, with a maxSinglePaneWidth inside the widths
defaultProps ==
    [width |-> <<>>, maxSinglePaneWidth |-> MaxWidth - 1,
     defaultSecondary |-> "view", defaultMode |-> "source"]

\* the props a layout controller is given
LayoutProps ==
    [width : Widths, maxSinglePaneWidth : 0..MaxWidth,
     defaultSecondary : Panes, defaultMode : Panes]

\* constructor(props)
LayoutInit(props) == [props |-> props, state |-> [primary |-> props.defaultMode]]

\* output() with the comparison width < maxSinglePaneWidth
layoutModes_Below(L) ==
    IF L.props.width # <<>> /\ L.props.width[1] < L.props.maxSinglePaneWidth
    THEN (L.state.primary :> TRUE)
    ELSE ((IF L.state.primary = "source" THEN L.props.defaultSecondary
           ELSE L.state.primary) :> TRUE) @@ ("source" :> TRUE)

\* output() that shows the second pane alone when there is room for two
layoutModes_NoSource(L) ==
    IF L.props.width # <<>> /\ L.props.width[1] <= L.props.maxSinglePaneWidth
    THEN (L.state.primary :> TRUE)
    ELSE ((IF L.state.primary = "source" THEN L.props.defaultSecondary
           ELSE L.state.primary) :> TRUE)

\* the object `modes` of output(), which _recalc builds as newModes: the
\* panes are its keys
layoutModes(L) ==
    IF L.props.width # <<>> /\ L.props.width[1] <= L.props.maxSinglePaneWidth
    THEN (L.state.primary :> TRUE)
    ELSE ((IF L.state.primary = "source" THEN L.props.defaultSecondary
           ELSE L.state.primary) :> TRUE) @@ ("source" :> TRUE)

\* ------------------------------------------------------------ Breadboard
\* the sources edited: Broken is one that transform reports an error for
Broken == "broken"
Sources == {"s1", "s2", Broken}

\* the functions passed as the props transform and prepare
Transforms == {"t1", "t2"}
Prepares == {"p1", "p2"}
Requires == {"r1", "r2"}

\* the value of the prop modes: the panes that are visible
ModeSets == SUBSET Panes \ {{}}

BoardProps ==
    [modes : ModeSets, transform : Transforms, prepare : Prepares,
     require : Requires]

\* props.transform(source): a text is <<>> when it is null
transformOf(transform, source) ==
    IF source = Broken
    THEN [transformedSource |-> <<>>, executableSource |-> <<>>,
          error |-> <<transform, source>>]
    ELSE [transformedSource |-> <<transform, source>>,
          executableSource |-> <<transform, source>>, error |-> <<>>]

\* props.prepare(executableSource, props.require, this.fakeWindow.actions)
prepareOf(prepare, executableSource, require) ==
    <<prepare, require>> \o executableSource

\* no call of transform or prepare
NoCalls == [transform |-> FALSE, prepare |-> FALSE]

\* no Breadboard instance
BoardNone ==
    [props |-> [modes |-> {"source"}, transform |-> "t1", prepare |-> "p1",
                require |-> "r1"],
     state |-> [source |-> "s1", modes |-> {"source"}, transformedSource |-> <<>>,
                executableSource |-> <<>>, transformError |-> <<>>,
                renderer |-> <<>>],
     did |-> NoCalls, op |-> "none", mounted |-> FALSE]

\* the constructor of Breadboard, in a browser
BoardConstruct(props, source) ==
    LET modes == props.modes
        execute == "view" \in modes \/ "console" \in modes
        state0 == [source |-> source, modes |-> modes, transformedSource |-> <<>>,
                   executableSource |-> <<>>, transformError |-> <<>>,
                   renderer |-> <<>>]
        t == transformOf(props.transform, source)
    IN IF "transformed" \in modes \/ execute
       THEN [props |-> props,
             state |-> [state0 EXCEPT
                          !.transformedSource = t.transformedSource,
                          !.executableSource = t.executableSource,
                          !.transformError = t.error,
                          !.renderer = IF execute /\ t.executableSource # <<>>
                                       THEN prepareOf(props.prepare, t.executableSource, props.require)
                                       ELSE @],
             did |-> [transform |-> TRUE,
                      prepare |-> execute /\ t.executableSource # <<>>],
             op |-> "constructor", mounted |-> TRUE]
       ELSE [props |-> props, state |-> state0, did |-> NoCalls,
             op |-> "constructor", mounted |-> TRUE]

\* transformAndPrepare that transforms and prepares whatever the modes are
transformAndPrepare_Always(B, source, props, modes) ==
    LET t == transformOf(props.transform, source)
    IN [did |-> [transform |-> TRUE, prepare |-> t.executableSource # <<>>],
        some |-> TRUE,
        updates |-> [B.state EXCEPT
                       !.transformError = t.error,
                       !.transformedSource = t.transformedSource,
                       !.executableSource = t.executableSource,
                       !.renderer = IF t.executableSource # <<>>
                                    THEN prepareOf(props.prepare, t.executableSource, props.require)
                                    ELSE @]]

\* transformAndPrepare(source, props, modes) of the board B: the calls it
\* makes added to B.did, whether it returns a result, and this.state with
\* the result merged into it
transformAndPrepare(B, source, props, modes) ==
    LET state == B.state
        execute == "view" \in modes \/ "console" \in modes
        t == transformOf(props.transform, source)
        transformed == [B.did EXCEPT !.transform = TRUE]
    IN IF execute \/ "transformed" \in modes
       THEN IF \/ t.transformedSource # state.transformedSource
               \/ t.executableSource # state.executableSource
               \/ t.error # state.transformError
            THEN LET result == [state EXCEPT
                                  !.transformError = t.error,
                                  !.transformedSource = t.transformedSource,
                                  !.executableSource = t.executableSource]
                 IN IF execute /\ t.executableSource # <<>>
                    THEN [did |-> [transformed EXCEPT !.prepare = TRUE],
                          some |-> TRUE,
                          updates |-> [result EXCEPT !.renderer =
                                         prepareOf(props.prepare, t.executableSource, props.require)]]
                    ELSE [did |-> transformed, some |-> TRUE, updates |-> result]
            ELSE [did |-> transformed, some |-> FALSE, updates |-> state]
       ELSE [did |-> B.did, some |-> FALSE, updates |-> state]

\* the fields a result of transformAndPrepare sets, merged by setState
merge(state, r) ==
    IF r.some
    THEN [state EXCEPT !.transformError = r.updates.transformError,
                       !.transformedSource = r.updates.transformedSource,
                       !.executableSource = r.updates.executableSource,
                       !.renderer = r.updates.renderer]
    ELSE state

\* handleModesChange(modes): the updates it passes to setState, applied to
\* `pending`, the state the pending setState calls make
handleModesChange(B, pending, modes) ==
    LET prevModes == B.state.modes
        prevExecute == "view" \in prevModes \/ "console" \in prevModes
        nextExecute == "view" \in modes \/ "console" \in modes
        r == IF \/ ("transformed" \notin prevModes /\ "transformed" \in modes)
                \/ (~prevExecute /\ nextExecute)
             THEN transformAndPrepare(B, B.state.source, B.props, modes)
             ELSE [did |-> B.did, some |-> FALSE, updates |-> B.state]
    IN [did |-> r.did, pending |-> [merge(pending, r) EXCEPT !.modes = modes]]

\* componentWillReceiveProps(nextProps); React then applies the pending
\* setState calls and makes nextProps this.props
boardReceiveProps(B, nextProps) ==
    LET B0 == [B EXCEPT !.did = NoCalls, !.op = "componentWillReceiveProps"]
        h == IF nextProps.modes # B.props.modes
             THEN handleModesChange(B0, B0.state, nextProps.modes)
             ELSE [did |-> B0.did, pending |-> B0.state]
        B1 == [B0 EXCEPT !.did = h.did]
        r == IF \/ nextProps.transform # B.props.transform
                \/ nextProps.prepare # B.props.prepare
                \/ nextProps.require # B.props.require
             THEN transformAndPrepare(B1, B1.state.source, nextProps, nextProps.modes)
             ELSE [did |-> B1.did, some |-> FALSE, updates |-> B1.state]
    IN [B1 EXCEPT !.did = r.did, !.state = merge(h.pending, r), !.props = nextProps]

\* changeSource(source), the debounced handler of an edit
changeSource(B, source) ==
    LET B0 == [B EXCEPT !.did = NoCalls, !.op = "changeSource"]
    IN IF source # B.state.source
       THEN LET r == transformAndPrepare(B0, source, B.props, B.props.modes)
            IN [B0 EXCEPT !.did = r.did,
                          !.state = [merge(B0.state, r) EXCEPT !.source = source]]
       ELSE B0

\* ------------------------------------------------------------ observation
\* What is noted of the binding layer from one outside call to the next:
\*   dirty     a change was recorded since the last host update was scheduled
\*   vacuous   a host update was scheduled with no change recorded before it
\*   ph, x, y  how far the calls since the host was last idle make up two
\*             overlapping transactions, of x and then of y: x has started
\*             (1), y has started too (2), x has ended (3), y has ended (4);
\*             0 when they do not
\*   ox, oy    the output x and y changed to in them
\*   nflush    the host updates scheduled since x started
MonInit ==
    [dirty |-> FALSE, vacuous |-> FALSE,
     ph |-> 0, x |-> Null, y |-> Null, ox |-> NoOut, oy |-> NoOut, nflush |-> 0]

RECURSIVE countFlushes(_, _)
countFlushes(hl, i) ==
    IF i > Len(hl) THEN 0
    ELSE (IF hl[i].ev = "flush" THEN 1 ELSE 0) + countFlushes(hl, i + 1)

\* dirty and vacuous after the handler calls hl[i..]
RECURSIVE observeBatch(_, _, _)
observeBatch(m, hl, i) ==
    IF i > Len(hl) THEN m
    ELSE observeBatch(
             CASE hl[i].ev = "change" /\ hl[i].ok -> [m EXCEPT !.dirty = TRUE]
               [] hl[i].ev = "flush" -> [m EXCEPT !.vacuous = @ \/ ~m.dirty,
                                                  !.dirty = FALSE]
               [] OTHER -> m,
             hl, i + 1)

HostIdle ==
    /\ host.transactionLevel = 0
    /\ host.flushLevel = 0
    /\ host.pending = 0
    /\ ~host.changesExist

\* the two overlapping transactions after the step `rec` that ended in M
observeOverlap(m, M, rec) ==
    LET f == rec.c
        dead == [m EXCEPT !.ph = 0, !.x = Null, !.y = Null,
                          !.ox = NoOut, !.oy = NoOut, !.nflush = 0]
        n == m.nflush + countFlushes(M.hlog, 1)
        out == M.host.state[M.fake[f].key]
    IN CASE rec.op = "fakeStart" ->
               IF HostIdle
               THEN [dead EXCEPT !.ph = 1, !.x = f]
               ELSE IF m.ph = 1 /\ f # m.x
               THEN [m EXCEPT !.ph = 2, !.y = f, !.nflush = n]
               ELSE dead
         [] rec.op = "fakeChange" ->
               IF Raised(M) THEN dead
               ELSE IF m.ph \in {1, 2} /\ f = m.x /\ m.ox = NoOut
               THEN [m EXCEPT !.ox = out, !.nflush = n]
               ELSE IF m.ph \in {2, 3} /\ f = m.y /\ m.oy = NoOut
               THEN [m EXCEPT !.oy = out, !.nflush = n]
               ELSE dead
         [] rec.op = "fakeEnd" ->
               IF m.ph = 2 /\ f = m.x /\ m.ox # NoOut
               THEN [m EXCEPT !.ph = 3, !.nflush = n]
               ELSE IF m.ph = 3 /\ f = m.y /\ m.oy # NoOut
               THEN [m EXCEPT !.ph = 4, !.nflush = n]
               ELSE dead
         [] OTHER -> dead

Observe(M, rec) ==
    observeOverlap(observeBatch(mon, M.hlog, 1), M, rec)

\* ------------------------------------------------------------------ state
\* the props the host is constructed with: the input the controllers are fed
\* and, per prop key, the controller it holds
InitProps(a, f, g) == [input |-> 0, a |-> a, f |-> f, g |-> g]

\* no component other than the controller runtime has been set up
BesideInit ==
    /\ scope = ScopeNone
    /\ setup = SetupNone
    /\ layout = LayoutInit(defaultProps)
    /\ board = BoardNone

\* the controller runtime after construction
RuntimeInit(props) ==
    /\ ctl = [c \in Ctrls |-> CtlInit(0)]
    /\ host = HostInit(props)
    /\ fake = [f \in Fakes |-> FakeInit]
    /\ stack = <<>>
    /\ log = <<>>
    /\ hlog = <<>>
    /\ thrown = "none"
    /\ released = <<>>
    /\ call = [op |-> "init", c |-> Null, step |-> "init", nSet |-> 0,
               fuel |-> 0, depth |-> 0]
    /\ mon = MonInit
    /\ world = WorldInit

Init(props) ==
    /\ BesideInit
    /\ RuntimeInit(props)

Outside == stack = <<>>

Top == stack[Len(stack)]

\* the code that runs may call controller c: outside code any controller, a
\* body or hook its own
MayCall(c) ==
    IF Outside
    THEN ctl[c].transactionLevel < MaxLevel /\ Len(host.unlockQueue) < MaxQueue
    ELSE Top.c = c /\ call.fuel > 0

\* the machine state a call starts from
Begin == IF Outside THEN Fresh ELSE Now

\* the call record of a step named `step` of the call op of c when made
\* from outside, or of the running outside call
CallRec(M, op, c, step) ==
    IF Outside
    THEN [op |-> op, c |-> c, step |-> step, nSet |-> M.nSet, fuel |-> MaxOps,
          depth |-> 0]
    ELSE [call EXCEPT !.step = step, !.nSet = M.nSet, !.fuel = @ - 1]

\* the step ends in machine state M with the bodies `stk` running; an
\* exception leaves through all of them
Finish(M, stk, rec) ==
    /\ ctl' = M.ctl
    /\ host' = M.host
    /\ fake' = M.fake
    /\ log' = M.log
    /\ hlog' = M.hlog
    /\ thrown' = M.thrown
    /\ released' = M.released
    /\ stack' = IF Raised(M) THEN <<>> ELSE stk
    /\ call' = [rec EXCEPT !.depth = IF Len(stk) > @ THEN Len(stk) ELSE @]
    /\ mon' = Observe(M, rec)
    /\ world' = M.world
    /\ UNCHANGED beside

\* this.actions[key]() is called
Action(c, key) ==
    /\ MayCall(c)
    /\ LET step == IF key \in ctl[c].runningActions THEN "reentrant"
                   ELSE IF ctl[c].isDestroyed THEN "destroyed" ELSE "enter"
       IN IF doActionRefuses(Now, c, key)
          THEN Finish(Now, stack, [call EXCEPT !.step = step])
          ELSE LET M == doActionEnter(Begin, c, key)
               IN Finish(M, Append(stack, [kind |-> "action", c |-> c, arg |-> key, mount |-> 0]),
                         CallRec(M, "action", c, step))

\* set(env) is called
Set(c, env) ==
    /\ MayCall(c)
    /\ IF setRefuses(Begin, c)
       THEN Finish(Begin, stack, CallRec(Begin, "set", c, "destroyed"))
       ELSE IF callsEnvWillUpdate(Begin, c, env)
       THEN LET M == setEnter(Begin, c, env)
            IN Finish(M, Append(stack, [kind |-> "envWillUpdate", c |-> c, arg |-> env, mount |-> 0]),
                      CallRec(M, "set", c, "enter"))
       ELSE LET M == setDirect(Begin, c, env)
            IN Finish(M, stack, CallRec(M, "set", c, "done"))

\* setState(state) is called
SetState(c, state) ==
    /\ MayCall(c)
    /\ LET M == setState(Begin, c, state)
       IN Finish(M, stack, CallRec(M, "setState", c, "done"))

\* the body or hook on top of the stack returns to the method that called
\* it; a set(props) called by componentWillMount returns into its loop
Return ==
    /\ ~Outside
    /\ LET M == IF Top.kind = "action"
                THEN doActionLeave(Now, Top.c, Top.arg)
                ELSE setLeave(Now, Top.c, Top.arg)
           rest == SubSeq(stack, 1, Len(stack) - 1)
       IN IF Top.mount = 0 \/ Raised(M)
          THEN Finish(M, rest, [call EXCEPT !.step = "return", !.nSet = M.nSet])
          ELSE LET r == mountFrom(subscribeRest(M, PropNames[Top.mount]), Top.mount + 1)
               IN Finish([r.m EXCEPT !.host.mounted = r.wait = <<>>], rest \o r.wait,
                         [call EXCEPT !.step = "return", !.nSet = r.m.nSet])

\* subscribe(change, transactionStart, transactionEnd) is called for observer
\* l, from outside or by a body or hook of c; the log notes at which
\* transactionLevel
Subscribe(c, l) ==
    /\ IF Outside THEN TRUE ELSE Top.c = c /\ call.fuel > 0
    /\ \A i \in DOMAIN ctl[c].listeners : ctl[c].listeners[i] # l
    /\ LET M0 == controllerSubscribe(Begin, c, l)
           M == [M0 EXCEPT !.log = Append(@, [c |-> c, l |-> l, ev |-> "subscribe",
                                              out |-> NoOut,
                                              tl |-> M0.ctl[c].transactionLevel,
                                              running |-> isRunning(M0, c)])]
       IN Finish(M, stack, CallRec(M, "subscribe", c, "done"))

\* destroy() is called, from outside or by a body or hook of c
Destroy(c) ==
    /\ IF Outside THEN TRUE ELSE Top.c = c /\ call.fuel > 0
    /\ LET M == controllerDestroy(Begin, c)
       IN Finish(M, stack, CallRec(M, "destroy", c, "done"))

\* the unsubscribe function of observer l is called, from outside or by a
\* body or hook of c, for the first time or again
Unsubscribe(c, l) ==
    /\ IF Outside THEN TRUE ELSE Top.c = c /\ call.fuel > 0
    /\ LET M == noted(controllerUnsubscribe(Begin, c, l), c, l, "unsubscribe", NoOut)
           step == IF l \in {ctl[c].listeners[i] : i \in DOMAIN ctl[c].listeners}
                   THEN "unsubscribe" ELSE "unsubscribeAgain"
       IN Finish(M, stack, CallRec(M, "unsubscribe", c, step))

\* React mounts the host: componentWillMount()
ComponentWillMount ==
    /\ Outside
    /\ ~host.mounted
    /\ LET r == mountFrom(Fresh, 1)
       IN Finish([r.m EXCEPT !.host.mounted = r.wait = <<>>], r.wait,
                 CallRec(r.m, "mount", Null, "enter"))

\* interface controller f calls onTransactionStart
FakeTransactionStart(f) ==
    /\ Outside
    /\ fake[f].key # Null
    /\ ~fake[f].open
    /\ LET M == handleTransactionStart(Fresh)
       IN Finish([M EXCEPT !.fake[f].open = TRUE,
                           !.fake[f].duringFlush = host.flushLevel > 0],
                 stack, CallRec(M, "fakeStart", f, "done"))

\* interface controller f calls onChange(output), in a transaction or not
FakeChange(f, out) ==
    /\ Outside
    /\ fake[f].key # Null
    /\ LET M == handleChange(Fresh, fake[f].key, <<out>>)
       IN Finish(M, stack, CallRec(M, "fakeChange", f, "done"))

\* interface controller f calls onTransactionEnd(unlock); its release token
\* is a function, named f here
FakeTransactionEnd(f) ==
    /\ Outside
    /\ fake[f].key # Null
    /\ fake[f].open
    /\ Len(host.unlockQueue) < MaxQueue
    /\ LET M == handleTransactionEnd(Fresh, f)
       IN Finish([M EXCEPT !.fake[f].open = FALSE, !.fake[f].duringFlush = FALSE],
                 stack, CallRec(M, "fakeEnd", f, "done"))

\* interface controller f, which has no listener, starts a transaction or
\* ends the one it is in
FakeTransactionAlone(f) ==
    /\ Outside
    /\ fake[f].key = Null
    /\ Finish([Fresh EXCEPT !.fake[f].open = ~@, !.fake[f].duringFlush = FALSE],
              stack, CallRec(Fresh, "fakeAlone", f, "done"))

\* React passes the mounted host new props: componentWillReceiveProps
ComponentWillReceiveProps(nextProps) ==
    /\ Outside
    /\ host.mounted
    /\ \A c \in Ctrls : ctl[c].transactionLevel < MaxLevel
    /\ host.transactionLevel \in 0..(MaxLevel - 1)
    /\ host.flushLevel < MaxLevel
    /\ Len(host.unlockQueue) < MaxQueue
    /\ LET M == render(receiveFrom(Fresh, nextProps, <<>>, 1))
       IN Finish(M, stack, CallRec(M, "receiveProps", Null, "done"))

\* React unmounts the host: componentWillUnmount()
ComponentWillUnmount ==
    /\ Outside
    /\ host.mounted
    /\ LET M == unmountFrom(Fresh, 1)
       IN Finish([M EXCEPT !.host.mounted = FALSE], stack,
                 CallRec(M, "unmount", Null, "done"))

\* the key under which the second host binds its controllers
OtherKey == "x"

\* a second host, of which the subscriptions alone are kept, subscribes to
\* the interface controller x: subscribe(OtherKey, x, props)
OtherSubscribe(x) ==
    /\ Outside
    /\ x \notin world.other
    /\ LET M == linkController(Fresh, x, OtherKey)
       IN Finish([M EXCEPT !.world.other = @ \cup {x}], stack,
                 CallRec(M, "otherSubscribe", x, "done"))

\* the second host unsubscribes from x: unsubscribe(OtherKey, x)
OtherUnsubscribe(x) ==
    /\ Outside
    /\ x \in world.other
    /\ Finish([Fresh EXCEPT !.world.linked[x] = Null, !.world.other = @ \ {x}],
              stack, CallRec(Fresh, "otherUnsubscribe", x, "done"))

\* React has processed the update scheduled by this.setState({ $flush: {} },
\* callback), rendering the host if it should update, and calls the callback; React batches the update, so it commits
\* once the code that scheduled it has returned
FlushCommit ==
    /\ Outside
    /\ host.pending > 0
    /\ LET M == FlushCallback(render(Fresh))
       IN Finish(M, stack, CallRec(M, "commit", Null, "done"))

\* the controller engine: one controller and its observers
Observed == {"A"}

NextController ==
    \/ \E c \in Observed, key \in ActionKeys : Action(c, key)
    \/ \E c \in Observed, env \in Envs : Set(c, env)
    \/ \E c \in Observed, state \in Vals : SetState(c, state)
    \/ \E c \in Observed, l \in Observers : Subscribe(c, l)
    \/ Return

SpecController == Init(InitProps(Null, Null, Null)) /\ [][NextController]_vars

\* the body of the action or the envWillUpdate hook that is running throws:
\* fn.apply(this, args) and this.envWillUpdate(env) are called outside any
\* try statement, so the exception leaves through every caller
Throw ==
    /\ ~Outside
    /\ Finish([Now EXCEPT !.thrown = "body"], <<>>, [call EXCEPT !.step = "throw"])

\* the controller engine with bodies and hooks that may throw
NextThrowing ==
    \/ NextController
    \/ Throw

SpecThrowing == Init(InitProps(Null, Null, Null)) /\ [][NextThrowing]_vars

\* the controller engine with either kind of hooks: a SimpleController, or an
\* instance of a subclass whose doesEnvDiffer and doesStateDiffer report no
\* difference
InitHooks ==
    \E d \in BOOLEAN :
        /\ BesideInit
        /\ ctl = [c \in Ctrls |-> [CtlInit(0) EXCEPT !.differs = d]]
        /\ host = HostInit(InitProps(Null, Null, Null))
        /\ fake = [f \in Fakes |-> FakeInit]
        /\ stack = <<>>
        /\ log = <<>>
        /\ hlog = <<>>
        /\ thrown = "none"
        /\ released = <<>>
        /\ call = [op |-> "init", c |-> Null, step |-> "init", nSet |-> 0,
                   fuel |-> 0, depth |-> 0]
        /\ mon = MonInit
        /\ world = WorldInit

SpecHooks == InitHooks /\ [][NextController]_vars

\* the controller engine over the life of its subscriptions: observers
\* subscribe and unsubscribe, one of them listens once, and the controller is
\* destroyed, from outside or by the bodies
Subscribers == {"O1", "Q"}
\* the calls made in it: one action, one env and one state value
LifeKeys == {"k1"}
LifeEnvs == {MaxEnv}
LifeVals == {MaxVal}

NextLifecycle ==
    \/ \E c \in Observed, key \in LifeKeys : Action(c, key)
    \/ \E c \in Observed, env \in LifeEnvs : Set(c, env)
    \/ \E c \in Observed, state \in LifeVals : SetState(c, state)
    \/ \E c \in Observed, l \in Subscribers : Subscribe(c, l)
    \/ \E c \in Observed, l \in Subscribers : Unsubscribe(c, l)
    \/ \E c \in Observed : Destroy(c)
    \/ Return

SpecLifecycle == Init(InitProps(Null, Null, Null)) /\ [][NextLifecycle]_vars

\* the binding layer on its own: a host bound to two interface controllers
NextBinding ==
    \/ ComponentWillMount
    \/ \E f \in Fakes : FakeTransactionStart(f)
    \/ \E f \in Fakes, out \in Vals : FakeChange(f, out)
    \/ \E f \in Fakes : FakeTransactionEnd(f)
    \/ FlushCommit

SpecBinding == Init(InitProps(Null, "F", "G")) /\ [][NextBinding]_vars

\* a host bound to a SimpleController and to an interface controller; the
\* bodies of the controller's actions and hooks call setState
Bound == {"A"}

NextBound ==
    \/ ComponentWillMount
    \/ \E c \in Bound, key \in ActionKeys : Outside /\ Action(c, key)
    \/ \E c \in Bound, env \in Envs : Outside /\ Set(c, env)
    \/ \E c \in Bound, state \in Vals : SetState(c, state)
    \/ Return
    \/ \E f \in Fakes : FakeTransactionStart(f)
    \/ \E f \in Fakes, out \in Vals : FakeChange(f, out)
    \/ \E f \in Fakes : FakeTransactionEnd(f)
    \/ FlushCommit

SpecBound == Init(InitProps("A", "F", Null)) /\ [][NextBound]_vars

\* a mounted host whose props change: the key `a` holds a SimpleController
\* or nothing, the key `f` one of two interface controllers or nothing; the
\* interface controllers have transactions, bound or not, the outputs that
\* change are the SimpleController's
PropsChoices ==
    {[input |-> e, a |-> a, f |-> f, g |-> Null] :
        e \in {0, MaxEnv}, a \in {Null, "A"}, f \in {Null, "F", "G"}}

\* the host holds a release token of interface controller f, which starts no
\* transaction before it is released
Locked(f) == \E i \in DOMAIN host.unlockQueue : host.unlockQueue[i] = f

NextProps ==
    \/ ComponentWillMount
    \/ Return
    \/ \E nextProps \in PropsChoices : ComponentWillReceiveProps(nextProps)
    \/ \E f \in Fakes : ~Locked(f) /\ FakeTransactionStart(f)
    \/ \E f \in Fakes : FakeTransactionEnd(f)
    \/ \E f \in Fakes : ~Locked(f) /\ FakeTransactionAlone(f)
    \/ FlushCommit

SpecProps == Init(InitProps("A", "F", Null)) /\ [][NextProps]_vars

\* two hosts that bind the same interface controllers: the first under its
\* key f, by mounting and by props updates, the second under its own key
TwoHostsChoices == {p \in PropsChoices : p.a = Null /\ p.input = 0}

NextTwoHosts ==
    \/ ComponentWillMount
    \/ \E nextProps \in TwoHostsChoices : ComponentWillReceiveProps(nextProps)
    \/ \E x \in Fakes : OtherSubscribe(x)
    \/ \E x \in Fakes : OtherUnsubscribe(x)
    \/ \E f \in Fakes : ~Locked(f) /\ FakeTransactionStart(f)
    \/ \E f \in Fakes : FakeChange(f, MaxVal)
    \/ \E f \in Fakes : FakeTransactionEnd(f)
    \/ FlushCommit

SpecTwoHosts == Init(InitProps(Null, "F", Null)) /\ [][NextTwoHosts]_vars

\* the controller runtime is not touched
RuntimeIdle ==
    UNCHANGED <<ctl, host, fake, stack, log, hlog, thrown, released, call, mon,
                world>>

\* React passes the scope new props
ScopeReceiveProps(nextProps) ==
    /\ scope.mounted
    /\ Len(scope.made) < MaxOps
    /\ scope' = scopeReceiveProps(scope, nextProps)
    /\ UNCHANGED <<setup, layout, board>>
    /\ RuntimeIdle

\* React unmounts the scope
ScopeUnmount ==
    /\ scope.mounted
    /\ scope' = scopeUnmount(scope, 1)
    /\ UNCHANGED <<setup, layout, board>>
    /\ RuntimeIdle

\* batch instantiation: a scope constructed with any props over its declared
\* keys, updated with any props and unmounted
InitScope ==
    /\ RuntimeInit(InitProps(Null, Null, Null))
    /\ setup = SetupNone
    /\ layout = LayoutInit(defaultProps)
    /\ board = BoardNone
    /\ \E props \in [ScopeKeys -> ScopeValues] : scope = ScopeConstruct(props)

NextScope ==
    \/ \E nextProps \in [ScopeKeys -> ScopeValues] : ScopeReceiveProps(nextProps)
    \/ ScopeUnmount

SpecScope == InitScope /\ [][NextScope]_vars

\* the classes and values passed under a declared key
DeclaredTypes == {ConformingClass, SimpleControllerClass, PlainFunction}
DeclaredValues == {Handle, PlainObject, MarkedObject, UndefinedValue}

\* the arguments of instantiateDefaultControllers: one class, or a mapping
\* of some keys to classes
ClassArgs ==
    {[single |-> TRUE, value |-> t] : t \in DeclaredTypes}
    \cup {[single |-> FALSE, map |-> m] :
             m \in UNION {[K -> DeclaredTypes] : K \in SUBSET ScopeKeys}}

\* the arguments of injectControllers: one controller, or a mapping of some
\* keys to values
ControllerArgs ==
    {[single |-> TRUE, value |-> Handle]}
    \cup {[single |-> FALSE, map |-> m] :
             m \in UNION {[K -> DeclaredValues] : K \in SUBSET ScopeKeys}}

\* the arguments of controlledByProps: a name or an array of names
NameArgs ==
    LET Names == {"a", "f", Flush}
    IN {[single |-> TRUE, names |-> <<n>>] : n \in Names}
       \cup {[single |-> FALSE, names |-> ns] :
                ns \in UNION {[1..n -> Names] : n \in 0..2}}

\* a call of a factory or decorator function: it touches nothing else
SetupCall(fn, arg, R) ==
    /\ setup' = [R EXCEPT !.fn = fn, !.arg = arg]
    /\ UNCHANGED <<scope, layout, board>>
    /\ RuntimeIdle

CallInstantiateController(type) ==
    SetupCall("instantiateController", type, instantiateController(SetupNone, type))

CallIsController(obj) ==
    SetupCall("isController", obj,
              [SetupNone EXCEPT !.returned = IF isController(obj) THEN obj ELSE UndefinedValue])

CallInstantiateDefaultControllers(arg) ==
    SetupCall("instantiateDefaultControllers", arg,
              instantiateDefaultControllers(SetupNone, arg))

CallInjectControllers(arg) ==
    SetupCall("injectControllers", arg, injectControllers(SetupNone, arg))

CallControlledByProps(arg) ==
    SetupCall("controlledByProps", arg, controlledByProps(SetupNone, arg.names))

\* the factory and decorator functions, called with any argument
NextSetup ==
    \/ \E type \in Types : CallInstantiateController(type)
    \/ \E obj \in DeclaredValues \cup {InstanceObject} : CallIsController(obj)
    \/ \E arg \in ClassArgs : CallInstantiateDefaultControllers(arg)
    \/ \E arg \in ControllerArgs : CallInjectControllers(arg)
    \/ \E arg \in NameArgs : CallControlledByProps(arg)

SpecSetup == Init(InitProps(Null, Null, Null)) /\ [][NextSetup]_vars

\* the layout controller is given new props
LayoutSet(props) ==
    /\ layout' = [layout EXCEPT !.props = props]
    /\ UNCHANGED <<scope, setup, board>>
    /\ RuntimeIdle

\* one of the actions selectMode(mode), selectTransformed, selectView,
\* selectConsole, selectSource: this.setState({ primary: mode })
SelectMode(mode) ==
    /\ layout' = [layout EXCEPT !.state.primary = mode]
    /\ UNCHANGED <<scope, setup, board>>
    /\ RuntimeIdle

\* a layout controller constructed with any props, whose props and mode
\* change
InitLayout ==
    /\ RuntimeInit(InitProps(Null, Null, Null))
    /\ scope = ScopeNone
    /\ setup = SetupNone
    /\ board = BoardNone
    /\ \E props \in LayoutProps : layout = LayoutInit(props)

NextLayout ==
    \/ \E props \in LayoutProps : LayoutSet(props)
    \/ \E mode \in Panes : SelectMode(mode)

SpecLayout == InitLayout /\ [][NextLayout]_vars

\* React passes the Breadboard new props
BoardReceiveProps(nextProps) ==
    /\ board.mounted
    /\ board' = boardReceiveProps(board, nextProps)
    /\ UNCHANGED <<scope, setup, layout>>
    /\ RuntimeIdle

\* the source was edited and the debounced changeSource runs
BoardChangeSource(source) ==
    /\ board.mounted
    /\ board' = changeSource(board, source)
    /\ UNCHANGED <<scope, setup, layout>>
    /\ RuntimeIdle

\* a Breadboard constructed with any modes and source, whose modes, transform
\* and prepare functions and source change
InitBoard ==
    /\ RuntimeInit(InitProps(Null, Null, Null))
    /\ scope = ScopeNone
    /\ setup = SetupNone
    /\ layout = LayoutInit(defaultProps)
    /\ \E props \in BoardProps, source \in Sources :
          board = BoardConstruct(props, source)

NextBoard ==
    \/ \E nextProps \in BoardProps : BoardReceiveProps(nextProps)
    \/ \E source \in Sources : BoardChangeSource(source)

SpecBoard == InitBoard /\ [][NextBoard]_vars

\* ----------------------------------------------------------------- claims
ListenersOf(c) == {ctl[c].listeners[i] : i \in DOMAIN ctl[c].listeners}

\* the places in the log where listener l was notified of ev
Told(l, ev) == {i \in DOMAIN log : log[i].l = l /\ log[i].ev = ev}

\* listener l subscribed during the outside call that is running or was last
Joined(l) == Told(l, "subscribe") # {}

\* the handler calls of kind ev since the outside call began
Handled(ev) == {i \in DOMAIN hlog : hlog[i].ev = ev}

\* C1: handleChange records a change exactly when it is called with
\* transactionLevel >= 1 and flushLevel = 0 and throws otherwise, so a state
\* in which a change was just recorded has transactionLevel >= 1 and
\* flushLevel = 0.
C1_ChangeOnlyInTransaction ==
    /\ \A i \in Handled("change") :
          /\ hlog[i].ok <=> (hlog[i].tl >= 1 /\ hlog[i].fl = 0)
          /\ ~hlog[i].ok => thrown \in {"noTransaction", "flushing"}
    /\ (call.op = "fakeChange" /\ thrown = "none") =>
          /\ host.transactionLevel >= 1
          /\ host.flushLevel = 0
          /\ host.changesExist

C1_Witness ==
    /\ call.op = "fakeChange"
    /\ thrown = "none"
    /\ \E i \in Handled("change") : hlog[i].ok

\* C2: when two controllers bound to one host each open a transaction and
\* change their output once, the transactions overlapping (x starts, y
\* starts, x ends, y ends), no host update is scheduled before y ends, and
\* exactly one is scheduled when y ends, with both outputs in the host state.
C2_OneCoalescedFlush ==
    /\ mon.ph \in {1, 2, 3} => mon.nflush = 0 /\ host.pending = 0
    /\ mon.ph = 4 =>
          /\ mon.nflush = 1
          /\ host.pending = 1
          /\ host.state[fake[mon.x].key] = mon.ox
          /\ host.state[fake[mon.y].key] = mon.oy

C2_Witness ==
    /\ mon.ph = 4
    /\ mon.ox # mon.oy

\* C3: an action whose bodies (its own and those of the actions it calls)
\* call setState delivers no onChange while a body runs, and exactly one to
\* every listener once the outermost body has returned, with the output
\* computed from the last state.
C3_OneChangeAfterAction ==
    \A c \in Observed :
        (call.op = "action" /\ call.c = c) =>
            /\ stack # <<>> => \A l \in ListenersOf(c) : Told(l, "change") = {}
            /\ (stack = <<>> /\ call.step = "return" /\ call.nSet >= 1) =>
                  \A l \in ListenersOf(c) :
                      /\ Cardinality(Told(l, "change")) = 1
                      /\ \A i \in Told(l, "change") :
                            /\ log[i].out = output(Now, c)
                            /\ ~log[i].running

C3_Witness ==
    /\ call.op = "action"
    /\ stack = <<>>
    /\ call.step = "return"
    /\ call.nSet >= 3
    /\ call.depth >= 2
    /\ \E l \in ListenersOf(call.c) : Told(l, "change") # {}

\* C4: over an outside call of set, of an action or of setState, with any
\* nesting of calls inside it, every listener is told onTransactionStart
\* once, when transactionLevel becomes 1, and onTransactionEnd once, when it
\* becomes 0 again; the nested transactions tell nothing. (A listener that
\* subscribed inside the call was no listener when transactionLevel became 1:
\* it is told of no start, and of the one end.)
C4_OneStartOneEnd ==
    \A c \in Observed :
        (call.op \in {"action", "set", "setState"} /\ call.c = c) =>
            \A l \in ListenersOf(c) :
                /\ Cardinality(Told(l, "transactionStart")) = IF Joined(l) THEN 0 ELSE 1
                /\ \A i \in Told(l, "transactionStart") : log[i].tl = 1
                /\ Cardinality(Told(l, "transactionEnd")) = IF stack = <<>> THEN 1 ELSE 0
                /\ \A i \in Told(l, "transactionEnd") : log[i].tl = 0

C4_Witness ==
    /\ call.op = "action"
    /\ stack = <<>>
    /\ call.depth >= 2
    /\ call.nSet >= 2
    /\ Len(ctl[call.c].listeners) = 2
    /\ \A l \in ListenersOf(call.c) : Told(l, "transactionStart") # {}
    /\ \A l \in ListenersOf(call.c) : Told(l, "transactionEnd") # {}

\* C5: every onChange is delivered while the controller's transactionLevel is
\* above 0, after the onTransactionStart of the transaction (which the
\* listener was told of, or inside which it subscribed) and before its
\* onTransactionEnd, whether the call from outside is set, an action or
\* setState.
C5_ChangeInsideTransaction ==
    \A i \in DOMAIN log :
        log[i].ev = "change" =>
            /\ log[i].tl > 0
            /\ \/ \E j \in Told(log[i].l, "transactionStart") : j < i
               \/ \E j \in Told(log[i].l, "subscribe") : j < i /\ log[j].tl > 0
            /\ \A j \in Told(log[i].l, "transactionEnd") : j > i
            /\ stack = <<>> => Told(log[i].l, "transactionEnd") # {}

C5_Witness ==
    /\ call.op = "setState"
    /\ \E i \in DOMAIN log : log[i].ev = "change"

\* C6: a call of an action that is running on the controller changes nothing:
\* no field of the controller, no body started, nothing thrown, no listener
\* notified.
C6_ReentrantCallRejected ==
    [][call'.step = "reentrant" =>
          UNCHANGED <<ctl, host, fake, stack, log, hlog, thrown, released>>]_vars

C6_Witness ==
    /\ call.step = "reentrant"
    /\ stack # <<>>
    /\ call.nSet >= 1

\* C7: a transaction that starts while flushLevel > 0 raises flushLevel with
\* transactionLevel, and flushLevel stays above 0 until the host update has
\* committed and that transaction has ended, so every onChange in between is
\* rejected with the flush error.
C7_TransactionDuringFlush ==
    /\ \A i \in Handled("start") : hlog[i].arg => hlog[i].fl >= 2
    /\ host.pending > 0 => host.flushLevel > 0
    /\ \A f \in Fakes :
          (fake[f].open /\ fake[f].duringFlush) =>
              /\ host.flushLevel > 0
              /\ (call.op = "fakeChange" /\ call.c = f) => thrown = "flushing"

C7_Witness ==
    \E f \in Fakes :
        /\ fake[f].open
        /\ fake[f].duringFlush
        /\ host.pending = 0
        /\ call.op = "fakeChange"
        /\ call.c = f
        /\ thrown = "flushing"

\* C8: a host update is scheduled only by the handleTransactionEnd that
\* brings transactionLevel to 0 while a change is recorded, and changesExist
\* is cleared with it; transactions in which no change was recorded schedule
\* none.
C8_FlushOnlyWithChanges ==
    /\ \A i \in Handled("flush") :
          /\ hlog[i].tl = 0
          /\ hlog[i].arg
          /\ ~hlog[i].ce
          /\ i > 1
          /\ hlog[i - 1].ev = "end"
          /\ hlog[i - 1].tl = 0
    /\ ~mon.vacuous
    /\ host.pending > 0 => ~mon.dirty \/ host.changesExist

C8_Witness ==
    /\ call.op = "fakeEnd"
    /\ Handled("flush") # {}
    /\ host.pending = 1
    /\ ~host.changesExist

\* C9: the release tokens are invoked by the callback of a committed host
\* update only, all that are queued, in the order they were queued, and the
\* queue is empty afterwards.
C9_ReleaseInOrder ==
    /\ call.op # "commit" => released = <<>>
    /\ \A i \in Handled("commit") :
          /\ released = hlog[i].arg
          /\ host.unlockQueue = <<>>

\* C10: every onTransactionEnd the binding layer receives carries a release
\* token that can be called, so every entry of the unlock queue can be.
C10_TokensCallable ==
    /\ \A i \in Handled("end") : hlog[i].arg # Undefined
    /\ \A i \in DOMAIN host.unlockQueue : host.unlockQueue[i] # Undefined

\* C11: set(input) called on a live controller leaves input as the stored
\* env, whatever doesEnvDiffer reports, so that get() right after it gives
\* the output of that input: both when set runs to its end in one step and
\* when it ends with the return of the envWillUpdate hook it called.
C11_SetReplacesEnv ==
    [][/\ \A c \in Observed, env \in Envs :
              (Set(c, env) /\ ~ctl[c].isDestroyed /\ Len(stack') = Len(stack)) =>
                  /\ ctl'[c].env = env
                  /\ get([ctl |-> ctl'], c)[1] = env
       /\ (~Outside /\ Return /\ Top.kind = "envWillUpdate" /\ Top.mount = 0) =>
              /\ ctl'[Top.c].env = Top.arg
              /\ get([ctl |-> ctl'], Top.c)[1] = Top.arg]_vars

\* C12: a call of set from outside on a live controller whose doesEnvDiffer
\* reports no difference tells no listener onChange, and tells every listener
\* onTransactionStart once and then onTransactionEnd once.
C12_BracketAroundNoOp ==
    \A c \in Observed :
        (call.op = "set" /\ call.c = c /\ call.step = "done" /\ ~ctl[c].differs) =>
            \A l \in ListenersOf(c) :
                /\ Told(l, "change") = {}
                /\ Cardinality(Told(l, "transactionStart")) = 1
                /\ Cardinality(Told(l, "transactionEnd")) = 1
                /\ \A i \in Told(l, "transactionStart"), j \in Told(l, "transactionEnd") :
                      i < j /\ log[i].tl = 1 /\ log[j].tl = 0

C12_Witness ==
    /\ call.op = "set"
    /\ call.step = "done"
    /\ ~ctl[call.c].differs
    /\ Len(ctl[call.c].listeners) = 2
    /\ Len(log) = 4

\* an outside call of op on c has run to its end without being refused
Completed(op, c) ==
    /\ call.op = op
    /\ call.c = c
    /\ stack = <<>>
    /\ call.step \in {"done", "return"}

\* C13 as claimed: with hooks that always report a difference every call of
\* set and every call of an action tells every listener onChange exactly
\* once; with hooks that never do, no call tells any.
C13_OneChangePerCall ==
    \A c \in Observed :
        /\ (ctl[c].differs /\ (Completed("set", c) \/ Completed("action", c))) =>
              \A l \in ListenersOf(c) : Cardinality(Told(l, "change")) = 1
        /\ ~ctl[c].differs => \A i \in DOMAIN log : log[i].ev # "change"

\* C13: with hooks that always report a difference every call of set tells
\* every listener onChange exactly once, and a call of an action tells it at
\* most once: once when a body called setState, not at all when the body
\* called nothing; with hooks that never report a difference no call tells
\* any listener onChange.
C13_OneChangePerChangingCall ==
    \A c \in Observed :
        /\ (ctl[c].differs /\ Completed("set", c)) =>
              \A l \in ListenersOf(c) : Cardinality(Told(l, "change")) = 1
        /\ (ctl[c].differs /\ Completed("action", c)) =>
              \A l \in ListenersOf(c) :
                  /\ Cardinality(Told(l, "change")) <= 1
                  /\ call.nSet >= 1 => Cardinality(Told(l, "change")) = 1
                  /\ call.fuel = MaxOps => Told(l, "change") = {}
        /\ ~ctl[c].differs => \A i \in DOMAIN log : log[i].ev # "change"

C13_Witness ==
    \E c \in Observed :
        /\ ctl[c].differs
        /\ Completed("action", c)
        /\ call.fuel = MaxOps
        /\ ctl[c].listeners # <<>>
        /\ \A i \in DOMAIN log : log[i].ev # "change"

\* the notifications among the log entries
Notifications == {"change", "transactionStart", "transactionEnd"}

\* the log entries the step that is taken adds: none when the call is
\* refused, all of the log when the step is a call from outside, which starts
\* the log anew
AddedToLog ==
    IF call'.step \in {"reentrant", "destroyed"} THEN {}
    ELSE IF Outside THEN DOMAIN log'
    ELSE (Len(log) + 1)..Len(log')

\* C14: a call of set, subscribe, destroy, setState or of an action on a
\* destroyed controller throws nothing, leaves every field of the controller
\* as it is, the listeners empty, and notifies no one.
C14_DestroyedNoOp ==
    [][\A c \in Observed :
           (ctl[c].isDestroyed /\ call'.step # "return") =>
               /\ thrown' = "none"
               /\ ctl'[c] = ctl[c]
               /\ ctl'[c].listeners = <<>>
               /\ get([ctl |-> ctl'], c) = get([ctl |-> ctl], c)]_vars

\* C15: from a state in which the controller is destroyed on, no step tells
\* any listener onChange, onTransactionStart or onTransactionEnd: not the
\* calls made on it, not the rest of a transaction that was open when it was
\* destroyed, not after a later subscribe.
C15_DestroyedIsSilent ==
    [][\A c \in Observed :
           ctl[c].isDestroyed =>
               \A i \in AddedToLog :
                   log'[i].c = c => log'[i].ev \notin Notifications]_vars

\* C16: an observer that is not subscribed (any more) is told nothing by any
\* step, also while a transaction that began before is open; within a step
\* nothing is told to it after its unsubscribe function was called; and
\* calling the unsubscribe function again changes nothing of the controller,
\* so no other listener is removed.
C16_UnsubscribedIsSilent ==
    [][\A c \in Observed :
           /\ \A l \in Subscribers :
                 /\ l \notin ListenersOf(c) =>
                       \A i \in AddedToLog :
                           log'[i].l = l => log'[i].ev \notin Notifications
                 /\ \A j \in AddedToLog, i \in AddedToLog :
                       (log'[j].l = l /\ log'[j].ev = "unsubscribe" /\ log'[i].l = l /\ i > j) =>
                           log'[i].ev \notin Notifications
           /\ call'.step = "unsubscribeAgain" => ctl'[c] = ctl[c]]_vars

C16_Witness ==
    \E c \in Observed :
        /\ call.step = "unsubscribeAgain"
        /\ ctl[c].transactionLevel > 0
        /\ ctl[c].listeners # <<>>
        /\ \E i \in DOMAIN log : log[i].ev = "unsubscribe" /\ log[i].l \notin ListenersOf(c)

\* observer l has been subscribed to c since before the outside call that is
\* running (or was last) and has not called its unsubscribe function in it
Stayed(c, l) ==
    /\ l \in ListenersOf(c)
    /\ ~Joined(l)
    /\ Told(l, "unsubscribe") = {}

\* C17: in a call of set, of an action or of setState from outside, every
\* listener that was subscribed when the call began and does not unsubscribe
\* is told of the onTransactionStart round, and of the onTransactionEnd round
\* once the call is over, also when another listener unsubscribes during a
\* round; and of two such listeners the one that subscribed first is told
\* first in every round.
C17_EveryListenerInOrder ==
    \A c \in Observed :
        (call.op \in {"action", "set", "setState"} /\ call.c = c
            /\ call.step \notin {"destroyed", "reentrant"}) =>
            /\ \A l \in Subscribers \cup Observers :
                  Stayed(c, l) =>
                      /\ Cardinality(Told(l, "transactionStart")) = 1
                      /\ stack = <<>> => Cardinality(Told(l, "transactionEnd")) = 1
            /\ \A a \in DOMAIN ctl[c].listeners, b \in DOMAIN ctl[c].listeners :
                  (a < b /\ Stayed(c, ctl[c].listeners[a]) /\ Stayed(c, ctl[c].listeners[b])) =>
                      \A ev \in Notifications :
                          \A j \in Told(ctl[c].listeners[b], ev) :
                              \E i \in Told(ctl[c].listeners[a], ev) :
                                  /\ i < j
                                  /\ \A k \in i..j : log[k].ev = ev

\* the prop keys under which the host is subscribed to controller x: its
\* handlers among a SimpleController's listeners, the key an interface
\* controller holds the handlers of
HostKeysOf(h, cs, fs, x) ==
    IF x \in Fakes
    THEN IF fs[x].key = Null THEN {} ELSE {fs[x].key}
    ELSE {k \in PropKeys : \E i \in DOMAIN cs[x].listeners :
                              cs[x].listeners[i] = HostListener(k)}

\* the input controller x was last given, where the model keeps it
FedInput(cs, x, input) == x \in Ctrls => cs[x].env = input

OpenSubscribed ==
    {x \in Ctrls \cup Fakes :
        /\ HostKeysOf(host, ctl, fake, x) # {}
        /\ IF x \in Fakes THEN fake[x].open ELSE ctl[x].transactionLevel > 0}

\* C20: the host's transactionLevel is the number of controllers it is
\* subscribed to whose outermost transaction is open, whatever the order of
\* transaction starts and ends, props updates and host commits
C20_LevelCountsOpenSubscribed ==
    host.transactionLevel = Cardinality(OpenSubscribed)

\* the binds of this step that are redundant: the first host subscribes to
\* a controller the second is subscribed to, or the second to one the first
\* is subscribed to
RedundantBinds ==
    {x \in Fakes :
        \/ /\ HostKeysOf(host, ctl, fake, x) = {}
           /\ HostKeysOf(host', ctl', fake', x) # {}
           /\ x \in world.other
        \/ /\ x \notin world.other
           /\ x \in world'.other
           /\ HostKeysOf(host, ctl, fake, x) # {}}

\* C19: every step gives as many duplicate-binding diagnostics as it makes
\* redundant binds: one for each subscription of a host to a controller the
\* other host is subscribed to, none for a bind of a controller bound
\* nowhere and none for a notification; and the bind is made all the same
C19_OneDiagnosticPerRedundantBind ==
    [][world.warned < MaxOps =>
         /\ world'.warned = world.warned + Cardinality(RedundantBinds)
         /\ \A x \in RedundantBinds :
               /\ HostKeysOf(host', ctl', fake', x) # {}
               /\ x \in world'.other
      ]_vars

\* every controller the host is subscribed to has closed its transactions
\* and every host update that was scheduled has committed
Quiescent == OpenSubscribed = {} /\ host.pending = 0

\* C21: once every bound controller has closed its transactions and every
\* scheduled host update has committed, the host is Idle again:
\* transactionLevel and flushLevel are 0
C21_ReturnsToIdle ==
    Quiescent => host.transactionLevel = 0 /\ host.flushLevel = 0

\* the controllers the scope has created that are not destroyed
LiveMade == {i \in DOMAIN scope.made : scope.made[i].destroyed = 0}

C23_ZeroKeysWarns ==
    (/\ setup.fn \in {"instantiateDefaultControllers", "injectControllers"}
     /\ ~setup.arg.single
     /\ DOMAIN setup.arg.map = {}) =>
        /\ setup.thrown = "none"
        /\ setup.warned = 1
        /\ setup.returned = Decorator

\* C24: instantiateController throws without constructing an instance when
\* its first argument does not extend Controller; for every class that does
\* it constructs one instance, calls its $initialize and returns a frozen
\* handle with exactly set, get, subscribe and destroy, of which
\* isController is true; isController is true of no value that is not such
\* a handle
C24_HandleForEveryControllerClass ==
    /\ setup.fn = "instantiateController" =>
         IF ~setup.arg.extends
         THEN setup.thrown # "none" /\ setup.constructed = 0
         ELSE /\ setup.thrown = "none"
              /\ setup.constructed = 1
              /\ setup.initialized = 1
              /\ setup.returned.frozen
              /\ setup.returned.keys = {"set", "get", "subscribe", "destroy"}
              /\ isController(setup.returned)
    /\ setup.fn = "isController" =>
         (setup.returned.truthy => setup.arg = Handle)

\* C25: controlledByProps called with the name $flush, alone or in an array,
\* throws its configuration error: it returns no decorator, so that no
\* wrapper exists, and no controller has been constructed or subscribed to
C25_ReservedNameRejected ==
    (/\ setup.fn = "controlledByProps"
     /\ \E i \in DOMAIN setup.arg.names : setup.arg.names[i] = Flush) =>
        /\ setup.thrown = "Error"
        /\ setup.returned = UndefinedValue
        /\ setup.constructed = 0
        /\ \A k \in PropKeys : host.unsubscribers[k] = Null
        /\ \A c \in Ctrls : ctl[c].listeners = <<>>
        /\ scope = ScopeNone

\* controlledByProps was called with an array whose second name is $flush
C25_Witness ==
    /\ setup.fn = "controlledByProps"
    /\ ~setup.arg.single
    /\ setup.arg.names = <<"a", Flush>>
    /\ setup.thrown = "Error"

\* the panes that are visible: the keys of the modes the controller outputs
VisiblePanes == DOMAIN layoutModes(layout)

\* C26: with a width that is defined and at most maxSinglePaneWidth exactly
\* the primary pane is visible; with any other width the source pane is
\* visible together with the primary pane, or with defaultSecondary when the
\* primary pane is the source pane
C26_PanesFollowWidth ==
    LET width == layout.props.width
        primary == layout.state.primary
    IN IF width # <<>> /\ width[1] <= layout.props.maxSinglePaneWidth
       THEN VisiblePanes = {primary}
       ELSE /\ "source" \in VisiblePanes
            /\ primary # "source" => VisiblePanes = {"source", primary}
            /\ primary = "source" =>
                 VisiblePanes = {"source", layout.props.defaultSecondary}

\* the width is exactly maxSinglePaneWidth and the view pane, selected after
\* construction, is the only pane visible
C26_Witness ==
    /\ layout.props.width = <<layout.props.maxSinglePaneWidth>>
    /\ layout.props.defaultMode = "source"
    /\ layout.state.primary = "view"
    /\ VisiblePanes = {"view"}

\* C27: the constructor, a props update or an edit of the source calls
\* transform only when the modes then in force show the transformed, the view
\* or the console pane, and calls prepare only when they show the view or the
\* console pane
C27_CompilesOnlyWhenShown ==
    /\ board.did.transform =>
         board.props.modes \cap {"transformed", "view", "console"} # {}
    /\ board.did.prepare =>
         board.props.modes \cap {"view", "console"} # {}

\* the source of a Breadboard that shows the source pane alone was edited:
\* the text transformed earlier, for other modes, was left as it was
C27_Witness ==
    /\ board.op = "changeSource"
    /\ board.props.modes = {"source"}
    /\ board.state.source = "s2"
    /\ board.state.transformedSource = <<"t1", "s1">>
    /\ ~board.did.transform
    /\ ~board.did.prepare


\* what a call of handleChange(key, <<out>>) made at host h leaves in host':
\* nothing changed when it is rejected, the output recorded under key alone
\* and changesExist set when it is not
ChangeEffect(h, key, out) ==
    IF h.transactionLevel = 0 \/ h.flushLevel # 0
    THEN /\ thrown' \in {"noTransaction", "flushing"}
         /\ host'.state = h.state
         /\ host'.changesExist = h.changesExist
         /\ host'.transactionLevel = h.transactionLevel
         /\ host'.flushLevel = h.flushLevel
         /\ host'.unlockQueue = h.unlockQueue
    ELSE /\ thrown' = "none"
         /\ host'.state = [h.state EXCEPT ![key] = <<out>>]
         /\ host'.changesExist
         /\ host'.transactionLevel = h.transactionLevel
         /\ host'.flushLevel = h.flushLevel
         /\ host'.unlockQueue = h.unlockQueue

\* C28: a change handleChange rejects (transactionLevel 0 or flushLevel not 0)
\* leaves the recorded outputs, changesExist, both levels and the unlock queue
\* as they were; an accepted one records the output under its key, leaves
\* the other keys' outputs alone and sets changesExist
C28_ChangeFrame ==
    [][\A f \in Fakes, out \in Vals :
         FakeChange(f, out) => ChangeEffect(host, fake[f].key, out)]_vars

\* a change was rejected while a flush was scheduled, in a transaction that
\* started after it, with an output of the other key recorded and an unlock
\* token queued
C28_Witness ==
    /\ call.op = "fakeChange"
    /\ thrown = "flushing"
    /\ host.transactionLevel = 1
    /\ host.flushLevel = 2
    /\ host.unlockQueue # <<>>
    /\ \E k \in PropKeys : host.state[k] # NoOut


\* C29: a change made in the only transaction open at the host is accepted
\* when that transaction started after an earlier one had ended and before
\* the flush the earlier one scheduled was committed
C29_NonOverlappingAccepted ==
    (/\ call.op = "fakeChange"
     /\ fake[call.c].open
     /\ fake[call.c].duringFlush
     /\ host.transactionLevel = 1) => thrown = "none"

\* C30: when no transaction is open, nothing is being flushed and no host
\* update is pending, every release token queued by handleTransactionEnd has
\* been invoked and the unlock queue is empty
C30_QueueEmptyWhenIdle ==
    (/\ Outside
     /\ host.transactionLevel = 0
     /\ host.flushLevel = 0
     /\ host.pending = 0) => host.unlockQueue = <<>>


\* C31: once no transaction is open, nothing is being flushed and no host
\* update is pending, every output handleChange recorded has been rendered
C31_RecordedIsRendered ==
    (/\ Outside
     /\ host.transactionLevel = 0
     /\ host.flushLevel = 0
     /\ host.pending = 0) => ~host.unrendered


\* C32: whenever no set, action or setState call is running, every
\* controller's transactionLevel is 0, its runningActions is empty and no
\* notification is queued, whether or not the last call threw
C32_RestoredOutsideCalls ==
    Outside =>
        \A c \in Ctrls :
            /\ ctl[c].transactionLevel = 0
            /\ ctl[c].runningActions = {}
            /\ ~ctl[c].runningEnv
            /\ ~ctl[c].notificationIsQueued


\* C33: at most one flush is pending at the host, and while one is pending
\* handleChange records no change
C33_OneFlushPending ==
    /\ host.pending <= 1
    /\ \A i \in DOMAIN hlog :
         /\ (hlog[i].ev = "change" /\ hlog[i].ok) => hlog[i].pending = 0
         /\ hlog[i].ev = "flush" => hlog[i].pending = 1

\* a change was rejected while a flush is pending, in a transaction that
\* started after the flush had been scheduled
C33_Witness ==
    /\ host.pending = 1
    /\ host.transactionLevel = 1
    /\ call.op = "fakeChange"
    /\ Len(hlog) = 1
    /\ hlog[1].ev = "change"
    /\ ~hlog[1].ok
    /\ hlog[1].pending = 1


\* C34: the binding layer's transactionLevel and flushLevel are never
\* negative
C34_LevelsNonNegative ==
    /\ host.transactionLevel >= 0
    /\ host.flushLevel >= 0


\* C35: the registry of linked controllers has an entry for an interface
\* controller exactly when some host is subscribed to it
C35_RegistryMatchesBindings ==
    Outside =>
        \A x \in Fakes :
            world.linked[x] # Null <=>
                (HostKeysOf(host, ctl, fake, x) # {} \/ x \in world.other)


\* what render() passes the wrapped component under a declared key:
\* { ...this.props, ...this.state.defaults }
PassedDown(key) ==
    IF key \in DOMAIN scope.defaults
    THEN [made |-> <<scope.defaults[key]>>, value |-> External]
    ELSE [made |-> <<>>, value |-> scope.props[key]]

BodiesOnStack(c) ==
    {i \in DOMAIN stack : stack[i].kind = "action" /\ stack[i].c = c}

\* C37: no more action bodies of a controller are on the stack than it has
\* actions, no two of them are bodies of the same action, and runningActions
\* holds exactly the names of the actions whose bodies are on the stack
C37_RunningAreOnStack ==
    \A c \in Ctrls :
        /\ Cardinality(BodiesOnStack(c)) <= Cardinality(ActionKeys)
        /\ \A i, j \in BodiesOnStack(c) : stack[i].arg = stack[j].arg => i = j
        /\ ctl[c].runningActions = {stack[i].arg : i \in BodiesOnStack(c)}


\* the controller has room for one pane only
SinglePane ==
    /\ layout.props.width # <<>>
    /\ layout.props.width[1] <= layout.props.maxSinglePaneWidth

\* the primary pane is visible; one pane is visible in single-pane mode, and
\* two, one of them the source pane, in dual-pane mode when defaultSecondary
\* is not the source pane
PanesCounted ==
    /\ layout.state.primary \in VisiblePanes
    /\ SinglePane => Cardinality(VisiblePanes) = 1
    /\ (~SinglePane /\ layout.props.defaultSecondary # "source") =>
         /\ Cardinality(VisiblePanes) = 2
         /\ "source" \in VisiblePanes

Executable == transformOf(board.props.transform, board.state.source).executableSource

\* C39: while the view or the console pane is visible and the current source
\* transforms to an executable source, state.renderer is set and was
\* prepared from that executable source
C39_RendererWhenShown ==
    (/\ board.mounted
     /\ board.props.modes \cap {"view", "console"} # {}
     /\ Executable # <<>>) =>
        /\ board.state.renderer # <<>>
        /\ SubSeq(board.state.renderer, 3, Len(board.state.renderer)) = Executable

====
